---- MODULE Spec2Model ----
(***************************************************************************)
(* The publish pipeline of SleeperAgent: tools/publish_and_manifest.py     *)
(* (tree listing, file-level diff, manifest, promotion of the newest run   *)
(* folder to the stable folder), the diff of tools/postprocess.py and      *)
(* http_get_json of sleeper_sync.py.                                       *)
(***************************************************************************)
EXTENDS Integers, Sequences, FiniteSets, TLC

VARIABLES
    d_old,      \* diff harness: the old_dir argument (a directory)
    d_new,      \* diff harness: the new_dir argument (a directory)
    d_fail,     \* diff harness: the file whose read fails, if any
    d_pc,       \* diff harness: "call" before the call, then the function called
    d_ret,      \* diff harness: what the call produced
    now,        \* the wall clock, in seconds
    docs,       \* the directories below DOCS: directory name -> directory
    docs_root,  \* the regular files directly below DOCS: name -> content
    leagues,    \* main: os.environ["LEAGUES"].split()
    pc,         \* main: the step about to run, "idle" before, "returned"/"raised" after
    idx,        \* main: position of the for loop in leagues (1-based)
    run_dir,    \* main: the local run_dir (a directory name)
    exit_code,  \* the exit status of the process once it has ended
    done,       \* observer: positions of leagues whose publish ran to its end
    pub,        \* observer: per league id, its last complete publish
    old_stable, \* observer: from the promote on, the stable folder as it was before
    h_retry,    \* http_get_json: the retry argument
    h_attempt,  \* http_get_json: the value of attempt in the for loop
    h_pc,       \* http_get_json: the statement about to run, "returned"/"raised" after
    h_ret,      \* http_get_json: what the call produced
    h_log,      \* observer: the outcomes of the requests made, in order
    h_slept     \* observer: the time slept, in units of backoff

dvars == <<d_old, d_new, d_fail, d_pc, d_ret>>

mvars == <<docs, docs_root, leagues, pc, idx, run_dir, exit_code, done, pub, old_stable>>

hvars == <<h_retry, h_attempt, h_pc, h_ret, h_log, h_slept>>

(***************************************************************************)
(* Bounds of the model.                                                    *)
(***************************************************************************)
NPaths == 3          \* data file names a tree of the diff harness may hold
NContents == 2       \* distinct byte contents a data file may have

(***************************************************************************)
(* Relative paths.  A path is a string; Python orders strings by code      *)
(* point, so each path of the model carries its code points.               *)
(***************************************************************************)
DataNames == <<"a.json", "b.json", "c.json", "d.json">>

Paths == {"a.json", "b.json", "c.json", "d.json", "diff.json", "draft_picks.json",
          "manifest.json", "state.json"}

CodePoints(p) ==
    CASE p = "a.json"           -> <<97, 46, 106, 115, 111, 110>>
      [] p = "b.json"           -> <<98, 46, 106, 115, 111, 110>>
      [] p = "c.json"           -> <<99, 46, 106, 115, 111, 110>>
      [] p = "d.json"           -> <<100, 46, 106, 115, 111, 110>>
      [] p = "diff.json"        -> <<100, 105, 102, 102, 46, 106, 115, 111, 110>>
      [] p = "draft_picks.json" -> <<100, 114, 97, 102, 116, 95, 112, 105, 99, 107,
                                     115, 46, 106, 115, 111, 110>>
      [] p = "manifest.json"    -> <<109, 97, 110, 105, 102, 101, 115, 116, 46, 106,
                                     115, 111, 110>>
      [] p = "state.json"       -> <<115, 116, 97, 116, 101, 46, 106, 115, 111, 110>>

\* Python's str.__lt__: the first differing code point decides, a proper
\* prefix is smaller.
RECURSIVE SeqLess(_, _)
SeqLess(s, t) ==
    IF t = <<>> THEN FALSE
    ELSE IF s = <<>> THEN TRUE
    ELSE IF Head(s) # Head(t) THEN Head(s) < Head(t)
    ELSE SeqLess(Tail(s), Tail(t))

StrLess(p, q) == SeqLess(CodePoints(p), CodePoints(q))

\* Python's sorted() / list.sort() on a collection of distinct strings.
RECURSIVE sorted(_)
sorted(S) ==
    IF S = {} THEN <<>>
    ELSE LET m == CHOOSE x \in S : \A y \in S \ {x} : StrLess(x, y)
         IN  <<m>> \o sorted(S \ {m})

Range(s) == {s[k] : k \in 1..Len(s)}

(***************************************************************************)
(* Files and directories.  A directory is a record: whether it exists,     *)
(* the regular files below it (relative path -> content) and its mtime.    *)
(***************************************************************************)
Data(n) == [kind |-> "data", v |-> n]

NoFiles == [p \in {} |-> Data(0)]

NoDir == [exists |-> FALSE, files |-> NoFiles, mtime |-> 0]

Dir(files, mtime) == [exists |-> TRUE, files |-> files, mtime |-> mtime]

\* hashlib.sha256 over the file's bytes: equal bytes give equal digests,
\* different bytes different digests.
sha256_file(c) == <<"sha256", c>>

\* list_rel_files without out.sort(): the order rglob happens to yield.
list_rel_files_nosort(root) ==
    IF ~root.exists THEN <<>>
    ELSE LET s == sorted(DOMAIN root.files)
         IN  [k \in 1..Len(s) |-> s[Len(s) + 1 - k]]

list_rel_files(root) ==
    IF ~root.exists THEN <<>>
    ELSE sorted(DOMAIN root.files)

\* tools/postprocess.py calls _list_files, which the file does not define;
\* it is the tree lister of the design: the relative paths of the files.
_list_files(root) == sorted(DOMAIN root.files)

(***************************************************************************)
(* A read failure: hashing one of the two copies of `path' raises `err'    *)
(* (open() or read() fails: the file vanished or cannot be read).          *)
(***************************************************************************)
NoFail == [path |-> "none", err |-> "none"]

Fails(fail, path) == fail.path = path

\* The positions of `common' at which the hashing raises.
RaisesAt(common, fail) == {k \in 1..Len(common) : Fails(fail, common[k])}

FilesRec(a, r, c, u) ==
    [added |-> a, removed |-> r, changed |-> c, unchanged_count |-> u]

Returned(v) == [raised |-> "none", value |-> v]

Raised(err) == [raised |-> err]

utcnow == now

(***************************************************************************)
(* tools/publish_and_manifest.py: build_diff and write_diff.               *)
(***************************************************************************)
\* DiffLoop with the else branch lost: unchanged paths are not counted.
RECURSIVE DiffLoop_nocount(_, _, _, _, _)
DiffLoop_nocount(old_dir, new_dir, common, changed, unchanged) ==
    IF common = <<>> THEN [changed |-> changed, unchanged |-> unchanged]
    ELSE LET rel == Head(common)
         IN  IF sha256_file(old_dir.files[rel]) # sha256_file(new_dir.files[rel])
             THEN DiffLoop_nocount(old_dir, new_dir, Tail(common), Append(changed, rel),
                                   unchanged)
             ELSE DiffLoop_nocount(old_dir, new_dir, Tail(common), changed, unchanged)

\* DiffLoop with the comparison inverted (== for !=).
RECURSIVE DiffLoop_inverted(_, _, _, _, _)
DiffLoop_inverted(old_dir, new_dir, common, changed, unchanged) ==
    IF common = <<>> THEN [changed |-> changed, unchanged |-> unchanged]
    ELSE LET rel == Head(common)
         IN  IF sha256_file(old_dir.files[rel]) = sha256_file(new_dir.files[rel])
             THEN DiffLoop_inverted(old_dir, new_dir, Tail(common), Append(changed, rel),
                                    unchanged)
             ELSE DiffLoop_inverted(old_dir, new_dir, Tail(common), changed, unchanged + 1)

\* The loop over `common': hash both copies, append to changed or count.
RECURSIVE DiffLoop(_, _, _, _, _)
DiffLoop(old_dir, new_dir, common, changed, unchanged) ==
    IF common = <<>> THEN [changed |-> changed, unchanged |-> unchanged]
    ELSE LET rel == Head(common)
         IN  IF sha256_file(old_dir.files[rel]) # sha256_file(new_dir.files[rel])
             THEN DiffLoop(old_dir, new_dir, Tail(common), Append(changed, rel), unchanged)
             ELSE DiffLoop(old_dir, new_dir, Tail(common), changed, unchanged + 1)

\* build_diff with the two set differences exchanged.
build_diff_swapped(old_dir, new_dir, fail) ==
    LET old_set == Range(list_rel_files(old_dir))
        new_set == Range(list_rel_files(new_dir))
        common  == sorted(old_set \cap new_set)
        loop    == DiffLoop(old_dir, new_dir, common, <<>>, 0)
    IN  IF RaisesAt(common, fail) # {} THEN Raised(fail.err)
        ELSE Returned([generated_at |-> utcnow,
                       files |-> FilesRec(sorted(old_set \ new_set),
                                          sorted(new_set \ old_set),
                                          loop.changed, loop.unchanged)])

build_diff(old_dir, new_dir, fail) ==
    LET old_set == Range(list_rel_files(old_dir))
        new_set == Range(list_rel_files(new_dir))
        added   == sorted(new_set \ old_set)
        removed == sorted(old_set \ new_set)
        common  == sorted(old_set \cap new_set)
        loop    == DiffLoop(old_dir, new_dir, common, <<>>, 0)
    IN  IF RaisesAt(common, fail) # {} THEN Raised(fail.err)
        ELSE Returned([generated_at |-> utcnow,
                       files |-> FilesRec(added, removed, loop.changed, loop.unchanged)])

\* The content write_diff writes to out_path (json.dumps of `data'), or the
\* error it raises.
DiffFile(data) == [kind |-> "diff", generated_at |-> data.generated_at, files |-> data.files]

\* write_diff hashing the files of new_dir when there is no old_dir.
write_diff_hashall(old_dir, new_dir, fail) ==
    IF old_dir.exists
    THEN LET r == build_diff(old_dir, new_dir, fail)
         IN  IF r.raised # "none" THEN r ELSE Returned(DiffFile(r.value))
    ELSE IF fail # NoFail /\ fail.path \in DOMAIN new_dir.files
         THEN Raised(fail.err)
         ELSE Returned(DiffFile([generated_at |-> utcnow,
                                 files |-> FilesRec(list_rel_files(new_dir), <<>>, <<>>, 0)]))

write_diff(old_dir, new_dir, fail) ==
    IF old_dir.exists
    THEN LET r == build_diff(old_dir, new_dir, fail)
         IN  IF r.raised # "none" THEN r ELSE Returned(DiffFile(r.value))
    ELSE Returned(DiffFile([generated_at |-> utcnow,
                            files |-> FilesRec(list_rel_files(new_dir), <<>>, <<>>, 0)]))

(***************************************************************************)
(* tools/postprocess.py: build_diff and write_diff.                        *)
(***************************************************************************)
\* The loop with its try/except: a FileNotFoundError counts the path as
\* changed; any other error leaves the loop.
RECURSIVE PostDiffLoop(_, _, _, _, _, _)
PostDiffLoop(old_dir, new_dir, fail, common, changed, unchanged) ==
    IF common = <<>>
    THEN Returned([changed |-> changed, unchanged |-> unchanged])
    ELSE LET rel == Head(common)
         IN  IF Fails(fail, rel)
             THEN IF fail.err = "FileNotFoundError"
                  THEN PostDiffLoop(old_dir, new_dir, fail, Tail(common),
                                    Append(changed, rel), unchanged)
                  ELSE Raised(fail.err)
             ELSE IF sha256_file(old_dir.files[rel]) # sha256_file(new_dir.files[rel])
                  THEN PostDiffLoop(old_dir, new_dir, fail, Tail(common),
                                    Append(changed, rel), unchanged)
                  ELSE PostDiffLoop(old_dir, new_dir, fail, Tail(common),
                                    changed, unchanged + 1)

post_build_diff(old_dir, new_dir, fail) ==
    LET old_set == IF old_dir.exists THEN Range(_list_files(old_dir)) ELSE {}
        new_set == IF new_dir.exists THEN Range(_list_files(new_dir)) ELSE {}
        added   == sorted(new_set \ old_set)
        removed == sorted(old_set \ new_set)
        common  == sorted(old_set \cap new_set)
        loop    == PostDiffLoop(old_dir, new_dir, fail, common, <<>>, 0)
    IN  IF loop.raised # "none" THEN loop
        ELSE Returned(FilesRec(added, removed, loop.value.changed, loop.value.unchanged))

post_write_diff(old_dir, new_dir, fail) ==
    LET r == post_build_diff(old_dir, new_dir, fail)
    IN  IF r.raised # "none" THEN r
        ELSE Returned(DiffFile([generated_at |-> utcnow, files |-> r.value]))

(***************************************************************************)
(* Directory names below DOCS.  A name is the sequence of its pieces, so   *)
(* that glob's prefix match is computed: "league_<lid>" is                 *)
(* <<"league_">> \o lid, and a league id is itself a sequence of pieces.   *)
(***************************************************************************)
IsPrefix(s, t) == Len(s) <= Len(t) /\ SubSeq(t, 1, Len(s)) = s

StableDir(lid) == <<"league_">> \o lid

\* DOCS.glob(f"league_{lid}_*") matches `name'.
GlobMatches(lid, name) == IsPrefix(StableDir(lid) \o <<"_">>, name)

IdUniverse == {<<"1">>, <<"2">>, <<"1", "_", "a">>}

RunSuffixes == {"a", "b"}

DirNames ==
    {StableDir(l) : l \in IdUniverse}
    \cup {StableDir(l) \o <<"_", x>> : l \in IdUniverse, x \in RunSuffixes}

\* newest_run_dir with min for max.
newest_run_dir_oldest(lid) ==
    LET candidates == {n \in DirNames : GlobMatches(lid, n) /\ docs[n].exists}
    IN  {n \in candidates : \A m \in candidates : docs[n].mtime <= docs[m].mtime}

\* newest_run_dir: the candidates of greatest mtime (max() returns the one
\* glob yields first among them); empty when there is no candidate (None).
newest_run_dir(lid) ==
    LET candidates == {n \in DirNames : GlobMatches(lid, n) /\ docs[n].exists}
    IN  {n \in candidates : \A m \in candidates : docs[m].mtime <= docs[n].mtime}

(***************************************************************************)
(* File operations.                                                        *)
(***************************************************************************)
Put(files, p, c) == [q \in DOMAIN files \cup {p} |-> IF q = p THEN c ELSE files[q]]

Without(files, p) == [q \in DOMAIN files \ {p} |-> files[q]]

\* Writing a file into a directory: creating an entry sets the directory's
\* mtime, overwriting an existing file does not.
WriteInto(dir, p, c) ==
    [exists |-> TRUE,
     files  |-> Put(dir.files, p, c),
     mtime  |-> IF p \in DOMAIN dir.files THEN dir.mtime ELSE now]

\* os.stat().st_size: a function of the bytes.  Data files of contents 2k-1
\* and 2k have the same length; a JSON artifact's length grows with what it
\* lists.
st_size(c) ==
    CASE c.kind = "data"     -> (c.v + 1) \div 2
      [] c.kind = "diff"     -> 4 + Len(c.files.added) + Len(c.files.removed)
                                  + Len(c.files.changed)
      [] c.kind = "manifest" -> 5 + Len(c.files)
      [] OTHER               -> 1

(***************************************************************************)
(* build_manifest / write_manifest.                                        *)
(***************************************************************************)
CoreFiles == {"state.json", "teams.json", "schedule.json", "transactions.json",
              "players_min.json"}

\* rel.startswith("lineups/")
StartsWithLineups(rel) ==
    IsPrefix(<<108, 105, 110, 101, 117, 112, 115, 47>>, CodePoints(rel))

is_core(rel) == rel \in CoreFiles \/ StartsWithLineups(rel)

\* json.loads of a data file.  Content 1 is an object carrying
\* generated_at, content 2 an object without it, content 3 an object whose
\* generated_at is the empty string, content 4 a JSON array, anything else
\* no JSON.  Timestamp strings are numbered: 0 is the empty string, the
\* wall-clock strings are the values of `now'.
json_loads(c) ==
    CASE c = Data(1) -> Returned([type |-> "object", fields |-> [generated_at |-> 1001]])
      [] c = Data(2) -> Returned([type |-> "object", fields |-> [league |-> 7]])
      [] c = Data(3) -> Returned([type |-> "object", fields |-> [generated_at |-> 0]])
      [] c = Data(4) -> Returned([type |-> "array"])
      [] OTHER       -> Raised("JSONDecodeError")

\* A failing operation of build_manifest: sha256_file of a listed file
\* (line 116), or read_text of state.json (line 128).
ManifestFail(op, path, err) == [path |-> path, err |-> err, op |-> op]

\* The manifest item without the stat: bytes left at 0.
ManifestItem_nosize(stable_dir, rel) ==
    [path    |-> rel,
     bytes   |-> 0,
     sha256  |-> sha256_file(stable_dir.files[rel]),
     is_core |-> is_core(rel)]

\* One entry of the manifest's files (the mtime field, which no property
\* here reads, is left out).
ManifestItem(stable_dir, rel) ==
    [path    |-> rel,
     bytes   |-> st_size(stable_dir.files[rel]),
     sha256  |-> sha256_file(stable_dir.files[rel]),
     is_core |-> is_core(rel)]

\* Lines 124-131 with s.get("generated_at", generated) for
\* s.get("generated_at") or generated.
ManifestGeneratedAt_noor(stable_dir, fail) ==
    IF "state.json" \in DOMAIN stable_dir.files
    THEN IF fail # NoFail /\ fail.op = "read_text" THEN utcnow
         ELSE LET s == json_loads(stable_dir.files["state.json"])
              IN  IF s.raised # "none" THEN utcnow
                  ELSE IF s.value.type # "object" THEN utcnow
                  ELSE IF "generated_at" \in DOMAIN s.value.fields
                       THEN s.value.fields.generated_at
                       ELSE utcnow
    ELSE utcnow

\* Lines 124-131: generated, with every exception of the try passed over:
\* of read_text, of json.loads, of s.get on what is not a dict.
ManifestGeneratedAt(stable_dir, fail) ==
    IF "state.json" \in DOMAIN stable_dir.files
    THEN IF fail # NoFail /\ fail.op = "read_text" THEN utcnow
         ELSE LET s == json_loads(stable_dir.files["state.json"])
              IN  IF s.raised # "none" THEN utcnow
                  ELSE IF s.value.type # "object" THEN utcnow
                  ELSE IF "generated_at" \in DOMAIN s.value.fields
                          /\ s.value.fields.generated_at # 0
                       THEN s.value.fields.generated_at
                       ELSE utcnow
    ELSE utcnow

\* build_manifest: the manifest, or the error of sha256_file in the loop of
\* lines 110-122, which nothing catches.
build_manifest(stable_dir, name, league_id, fail) ==
    LET rels  == list_rel_files(stable_dir)
        items == [k \in 1..Len(rels) |-> ManifestItem(stable_dir, rels[k])]
    IN  IF fail # NoFail /\ fail.op = "sha256_file" /\ fail.path \in Range(rels)
        THEN Raised(fail.err)
        ELSE Returned([kind         |-> "manifest",
                       league_id    |-> league_id,
                       dir          |-> name,
                       generated_at |-> ManifestGeneratedAt(stable_dir, fail),
                       count        |-> Len(items),
                       files        |-> items])

\* write_manifest: the stable folder with manifest.json written, or the
\* error.
write_manifest(stable_dir, name, league_id, fail) ==
    LET r == build_manifest(stable_dir, name, league_id, fail)
    IN  IF r.raised # "none" THEN r
        ELSE Returned(WriteInto(stable_dir, "manifest.json", r.value))

(***************************************************************************)
(* The inputs: trees, read failures, the LEAGUES lists, the run folders    *)
(* the exporter writes.                                                    *)
(***************************************************************************)
TreesOver(P, C) == UNION {[S -> C] : S \in SUBSET P}

ReadErrors == {"FileNotFoundError", "PermissionError"}

\* A file that cannot be read: one present in both trees (the only files a
\* diff of two existing trees hashes) or, the old tree missing, any file of
\* the new tree.
DiffFails(old_dir, new_dir) ==
    {NoFail}
    \cup [path : IF old_dir.exists
                 THEN DOMAIN old_dir.files \cap DOMAIN new_dir.files
                 ELSE DOMAIN new_dir.files,
          err  : ReadErrors]

\* The failures of build_manifest on a stable folder.
ManifestFails(stable_dir) ==
    {NoFail}
    \cup {ManifestFail("sha256_file", p, e) : p \in DOMAIN stable_dir.files, e \in ReadErrors}
    \cup {ManifestFail("read_text", p, e) :
             p \in DOMAIN stable_dir.files \cap {"state.json"}, e \in ReadErrors}

MaxClock == 4        \* no exporter or publisher run starts after this time

\* The lists with the two ids exchanged behave alike and are left out.
LeagueLists == {<<>>, << <<"1">> >>, << <<"1">>, <<"2">> >>}

FetchNames == {<<"league_", "1", "_", "a">>, <<"league_", "2", "_", "a">>}

ExportPaths == {"state.json"}

ExportTrees == TreesOver(ExportPaths, {Data(1), Data(2)})

(***************************************************************************)
(* main of tools/publish_and_manifest.py, one action per step.             *)
(***************************************************************************)
NoName == <<>>

NoExit == -1

NoPub == [valid |-> FALSE]

Exited == pc \in {"idle", "returned", "raised"}

Lid == leagues[idx]

Stable == StableDir(Lid)

MainInit ==
    /\ docs = [n \in DirNames |-> NoDir]
    /\ docs_root = NoFiles
    /\ leagues = <<>>
    /\ pc = "idle"
    /\ idx = 1
    /\ run_dir = NoName
    /\ exit_code = NoExit
    /\ done = {}
    /\ pub = [l \in IdUniverse |-> NoPub]
    /\ old_stable = NoDir

\* The exporter (sleeper_sync.py) writes its files into a run folder, in
\* place: what it does not write (an earlier diff.json) stays.  The
\* exporter and the publisher are run one after the other, never at the
\* same time, each run later than the one before.
Fetch(name, tree) ==
    /\ Exited
    /\ now < MaxClock
    /\ now' = now + 1
    /\ LET kept == [q \in DOMAIN docs[name].files \ ExportPaths |-> docs[name].files[q]]
       IN  docs' = [docs EXCEPT ![name] =
                       Dir([q \in DOMAIN kept \cup DOMAIN tree |->
                               IF q \in DOMAIN tree THEN tree[q] ELSE kept[q]], now')]
    /\ pub' = [l \in IdUniverse |->
                  IF pub[l].valid /\ pub[l].run = name THEN NoPub ELSE pub[l]]
    /\ UNCHANGED <<docs_root, leagues, pc, idx, run_dir, exit_code, done>>
    /\ UNCHANGED <<dvars, hvars, old_stable>>

\* Lines 181-184: read LEAGUES, return 2 when it is empty.
MainStart(l) ==
    /\ Exited
    /\ now < MaxClock
    /\ now' = now + 1
    /\ leagues' = l
    /\ idx' = 1
    /\ run_dir' = NoName
    /\ done' = {}
    /\ IF l = <<>>
       THEN pc' = "returned" /\ exit_code' = 2
       ELSE pc' = "locate" /\ exit_code' = NoExit
    /\ UNCHANGED <<docs, docs_root, pub>>
    /\ UNCHANGED <<dvars, hvars, old_stable>>

\* Lines 188-191 with `continue' for `return 2'.
Locate_continue ==
    /\ pc = "locate"
    /\ IF newest_run_dir(Lid) = {}
       THEN /\ run_dir' = NoName
            /\ exit_code' = IF idx < Len(leagues) THEN exit_code ELSE 0
            /\ pc' = IF idx < Len(leagues) THEN "locate" ELSE "returned"
            /\ idx' = IF idx < Len(leagues) THEN idx + 1 ELSE idx
       ELSE /\ \E r \in newest_run_dir(Lid) : run_dir' = r
            /\ pc' = "diff"
            /\ UNCHANGED <<exit_code, idx>>
    /\ UNCHANGED <<docs, docs_root, leagues, done, pub, now>>
    /\ UNCHANGED <<dvars, hvars, old_stable>>

\* Lines 188-191: no per-run folder: return 2.
Locate ==
    /\ pc = "locate"
    /\ IF newest_run_dir(Lid) = {}
       THEN run_dir' = NoName /\ pc' = "returned" /\ exit_code' = 2
       ELSE /\ \E r \in newest_run_dir(Lid) : run_dir' = r
            /\ pc' = "diff"
            /\ UNCHANGED exit_code
    /\ UNCHANGED <<docs, docs_root, leagues, idx, done, pub, now>>
    /\ UNCHANGED <<dvars, hvars, old_stable>>

\* Lines 196-197: write_diff(stable_dir, run_dir, run_dir / "diff.json"); an
\* error of the hashing leaves main.
WriteDiff ==
    /\ pc = "diff"
    /\ \E fail \in DiffFails(docs[Stable], docs[run_dir]) :
          LET r == write_diff(docs[Stable], docs[run_dir], fail)
          IN  IF r.raised # "none"
              THEN /\ pc' = "raised"
                   /\ exit_code' = 1
                   /\ pub' = [pub EXCEPT ![Lid] = NoPub]
                   /\ UNCHANGED docs
              ELSE /\ docs' = [docs EXCEPT ![run_dir] = WriteInto(@, "diff.json", r.value)]
                   /\ pc' = "promote"
                   /\ UNCHANGED <<exit_code, pub>>
    /\ UNCHANGED <<docs_root, leagues, idx, run_dir, done, now>>
    /\ UNCHANGED <<dvars, hvars, old_stable>>

\* copytree_overwrite copying over the existing folder, without rmtree.
CopytreeOverwrite_merge ==
    /\ pc = "promote"
    /\ pc' = IF docs[Stable].exists THEN "copy" ELSE "mkdir"
    /\ old_stable' = docs[Stable]
    /\ UNCHANGED <<docs, docs_root, leagues, idx, run_dir, exit_code, done, pub, now>>
    /\ UNCHANGED <<dvars, hvars>>

\* copytree_overwrite, line 173: if dst.exists().
CopytreeOverwrite ==
    /\ pc = "promote"
    /\ pc' = IF docs[Stable].exists THEN "rmtree" ELSE "mkdir"
    /\ old_stable' = docs[Stable]
    /\ UNCHANGED <<docs, docs_root, leagues, idx, run_dir, exit_code, done, pub, now>>
    /\ UNCHANGED <<dvars, hvars>>

\* shutil.rmtree(dst), line 174: unlink the files one by one, in the order
\* the directory scan yields them ...
RmtreeUnlink(p) ==
    /\ pc = "rmtree"
    /\ p \in DOMAIN docs[Stable].files
    /\ docs' = [docs EXCEPT ![Stable] = Dir(Without(@.files, p), now)]
    /\ UNCHANGED <<docs_root, leagues, pc, idx, run_dir, exit_code, done, pub, now>>
    /\ UNCHANGED <<dvars, hvars, old_stable>>

\* ... then rmdir the emptied directory.
RmtreeRmdir ==
    /\ pc = "rmtree"
    /\ DOMAIN docs[Stable].files = {}
    /\ docs' = [docs EXCEPT ![Stable] = NoDir]
    /\ pc' = "mkdir"
    /\ UNCHANGED <<docs_root, leagues, idx, run_dir, exit_code, done, pub, now>>
    /\ UNCHANGED <<dvars, hvars, old_stable>>

\* shutil.copytree(src, dst), line 175: os.makedirs(dst) ...
CopytreeMkdir ==
    /\ pc = "mkdir"
    /\ docs' = [docs EXCEPT ![Stable] = Dir(NoFiles, now)]
    /\ pc' = "copy"
    /\ UNCHANGED <<docs_root, leagues, idx, run_dir, exit_code, done, pub, now>>
    /\ UNCHANGED <<dvars, hvars, old_stable>>

\* copytree moving each file instead of copying it.
CopytreeCopy_move(p) ==
    /\ pc = "copy"
    /\ p \in DOMAIN docs[run_dir].files \ DOMAIN docs[Stable].files
    /\ docs' = [docs EXCEPT ![Stable] = WriteInto(@, p, docs[run_dir].files[p]),
                            ![run_dir] = Dir(Without(@.files, p), now)]
    /\ UNCHANGED <<docs_root, leagues, pc, idx, run_dir, exit_code, done, pub, now>>
    /\ UNCHANGED <<dvars, hvars, old_stable>>

\* ... copy2 of each file of src, in the order the directory scan yields ...
CopytreeCopy(p) ==
    /\ pc = "copy"
    /\ p \in DOMAIN docs[run_dir].files \ DOMAIN docs[Stable].files
    /\ docs' = [docs EXCEPT ![Stable] = WriteInto(@, p, docs[run_dir].files[p])]
    /\ UNCHANGED <<docs_root, leagues, pc, idx, run_dir, exit_code, done, pub, now>>
    /\ UNCHANGED <<dvars, hvars, old_stable>>

\* ... and copystat(src, dst) once every file is copied.
CopytreeCopystat ==
    /\ pc = "copy"
    /\ DOMAIN docs[run_dir].files \subseteq DOMAIN docs[Stable].files
    /\ docs' = [docs EXCEPT ![Stable] = Dir(@.files, docs[run_dir].mtime)]
    /\ pc' = "copydiff"
    /\ UNCHANGED <<docs_root, leagues, idx, run_dir, exit_code, done, pub, now>>
    /\ UNCHANGED <<dvars, hvars, old_stable>>

\* Lines 203-207: copy diff.json into stable again; an error is passed over.
CopyDiff ==
    /\ pc = "copydiff"
    /\ \E copied \in BOOLEAN :
          IF copied /\ "diff.json" \in DOMAIN docs[run_dir].files
          THEN docs' = [docs EXCEPT ![Stable] =
                           WriteInto(@, "diff.json", docs[run_dir].files["diff.json"])]
          ELSE UNCHANGED docs
    /\ pc' = "shortcuts"
    /\ UNCHANGED <<docs_root, leagues, idx, run_dir, exit_code, done, pub, now>>
    /\ UNCHANGED <<dvars, hvars, old_stable>>

RootName(pre, lid, ext) == [pre |-> pre, lid |-> lid, ext |-> ext]

\* Lines 210-215 without the draft_picks copy.
Shortcuts_stateonly ==
    /\ pc = "shortcuts"
    /\ docs_root' =
          IF "state.json" \in DOMAIN docs[Stable].files
          THEN Put(docs_root, RootName("league_state_", Lid, ".json"),
                   docs[Stable].files["state.json"])
          ELSE docs_root
    /\ pc' = "html"
    /\ UNCHANGED <<docs, leagues, idx, run_dir, exit_code, done, pub, now>>
    /\ UNCHANGED <<dvars, hvars, old_stable>>

\* Lines 210-215: the back-compat copies at the docs root.
Shortcuts ==
    /\ pc = "shortcuts"
    /\ LET files == docs[Stable].files
           r1 == IF "state.json" \in DOMAIN files
                 THEN Put(docs_root, RootName("league_state_", Lid, ".json"),
                          files["state.json"])
                 ELSE docs_root
           r2 == IF "draft_picks.json" \in DOMAIN files
                 THEN Put(r1, RootName("draft_picks_", Lid, ".json"),
                          files["draft_picks.json"])
                 ELSE r1
       IN  docs_root' = r2
    /\ pc' = "html"
    /\ UNCHANGED <<docs, leagues, idx, run_dir, exit_code, done, pub, now>>
    /\ UNCHANGED <<dvars, hvars, old_stable>>

\* write_html_mirror, lines 147-169.
WriteHtmlMirror ==
    /\ pc = "html"
    /\ docs_root' =
          IF "state.json" \in DOMAIN docs[Stable].files
          THEN Put(docs_root, RootName("league_state_", Lid, ".html"),
                   [kind |-> "html", title |-> RootName("league_state_", Lid, ".json"),
                    raw |-> docs[Stable].files["state.json"]])
          ELSE docs_root
    /\ pc' = "manifest"
    /\ UNCHANGED <<docs, leagues, idx, run_dir, exit_code, done, pub, now>>
    /\ UNCHANGED <<dvars, hvars, old_stable>>

\* Line 221, write_manifest, then the next league or return 0 (line 223).
WriteManifest ==
    /\ pc = "manifest"
    /\ \E fail \in ManifestFails(docs[Stable]) :
          LET r     == write_manifest(docs[Stable], Stable, Lid, fail)
              again == pub[Lid].valid /\ pub[Lid].run = run_dir
          IN  IF r.raised # "none"
              THEN /\ pc' = "raised"
                   /\ exit_code' = 1
                   /\ pub' = [pub EXCEPT ![Lid] = NoPub]
                   /\ UNCHANGED <<docs, done, idx>>
              ELSE /\ docs' = [docs EXCEPT ![Stable] = r.value]
                   /\ done' = done \cup {idx}
                   /\ pub' = [pub EXCEPT ![Lid] =
                                 [valid     |-> TRUE,
                                  run       |-> run_dir,
                                  twice     |-> again,
                                  prev      |-> IF again THEN pub[Lid].inventory ELSE <<>>,
                                  inventory |-> r.value.files["manifest.json"].files]]
                   /\ IF idx < Len(leagues)
                      THEN idx' = idx + 1 /\ pc' = "locate" /\ UNCHANGED exit_code
                      ELSE pc' = "returned" /\ exit_code' = 0 /\ UNCHANGED idx
    /\ old_stable' = NoDir
    /\ UNCHANGED <<docs_root, leagues, run_dir, now>>
    /\ UNCHANGED <<dvars, hvars>>

\* An OSError in a step outside any try, or the process being killed:
\* nothing in main catches it, the interpreter exits with status 1.
RaisingSteps == {"diff", "rmtree", "mkdir", "copy", "shortcuts", "html", "manifest"}

\* A failure after the promote putting the stable folder back as it was.
Raise_rollback ==
    /\ pc \in RaisingSteps
    /\ pc' = "raised"
    /\ exit_code' = 1
    /\ pub' = [pub EXCEPT ![Lid] = NoPub]
    /\ old_stable' = NoDir
    /\ docs' = IF pc \in {"shortcuts", "html", "manifest"}
               THEN [docs EXCEPT ![Stable] = old_stable]
               ELSE docs
    /\ UNCHANGED <<docs_root, leagues, idx, run_dir, done, now>>
    /\ UNCHANGED <<dvars, hvars>>

Raise ==
    /\ pc \in RaisingSteps
    /\ pc' = "raised"
    /\ exit_code' = 1
    /\ pub' = [pub EXCEPT ![Lid] = NoPub]
    /\ old_stable' = NoDir
    /\ UNCHANGED <<docs, docs_root, leagues, idx, run_dir, done, now>>
    /\ UNCHANGED <<dvars, hvars>>

(***************************************************************************)
(* sleeper_sync.py: http_get_json.  A request ends in a response with a    *)
(* body, an HTTPError with a status, a URLError, or a timeout while the    *)
(* body is read.                                                           *)
(***************************************************************************)
MaxRetry == 3

RetryCodes == {429, 500, 502, 503, 504}

HttpCodes == RetryCodes \cup {404}

Response(body) == [kind |-> "response", code |-> 200, body |-> body]

HTTPError(code) == [kind |-> "HTTPError", code |-> code, body |-> Data(0)]

URLError == [kind |-> "URLError", code |-> 0, body |-> Data(0)]

TimeoutError == [kind |-> "TimeoutError", code |-> 0, body |-> Data(0)]

JSONDecodeError == [kind |-> "JSONDecodeError", code |-> 0, body |-> Data(0)]

NoError == [kind |-> "none", code |-> 0, body |-> Data(0)]

\* Data(1) is a JSON object, Data(5) is not JSON.
Outcomes ==
    {Response(Data(1)), Response(Data(5)), URLError, TimeoutError}
    \cup {HTTPError(c) : c \in HttpCodes}

None == [type |-> "None"]

HttpReturn(v) == [kind |-> "return", value |-> v, error |-> NoError]

HttpRaise(e) == [kind |-> "raise", value |-> None, error |-> e]

NoReturn == [kind |-> "none", value |-> None, error |-> NoError]

HttpParked ==
    /\ h_retry = 0
    /\ h_attempt = 0
    /\ h_pc = "unused"
    /\ h_ret = NoReturn
    /\ h_log = <<>>
    /\ h_slept = 0

\* for attempt in range(1, retry + 1): the body runs while attempt is in
\* the range; a loop that ends falls off the function, which returns None.
HttpFor ==
    /\ h_pc = "for"
    /\ IF h_attempt <= h_retry
       THEN h_pc' = "urlopen" /\ UNCHANGED h_ret
       ELSE h_pc' = "returned" /\ h_ret' = HttpReturn(None)
    /\ UNCHANGED <<h_retry, h_attempt, h_log, h_slept>>
    /\ UNCHANGED <<dvars, mvars, now>>

\* The try statement of one attempt, the request ending in o.
HttpUrlopen(o) ==
    /\ h_pc = "urlopen"
    /\ h_log' = Append(h_log, o)
    /\ CASE o.kind = "response" ->
                LET r == json_loads(o.body)
                IN  IF r.raised = "none"
                    THEN h_pc' = "returned" /\ h_ret' = HttpReturn(r.value)
                    ELSE h_pc' = "raised" /\ h_ret' = HttpRaise(JSONDecodeError)
         [] o.kind = "HTTPError" ->
                IF o.code \in RetryCodes /\ h_attempt < h_retry
                THEN h_pc' = "sleep" /\ UNCHANGED h_ret
                ELSE h_pc' = "raised" /\ h_ret' = HttpRaise(o)
         [] o.kind = "URLError" ->
                IF h_attempt < h_retry
                THEN h_pc' = "sleep" /\ UNCHANGED h_ret
                ELSE h_pc' = "raised" /\ h_ret' = HttpRaise(o)
         [] OTHER ->
                h_pc' = "raised" /\ h_ret' = HttpRaise(o)
    /\ UNCHANGED <<h_retry, h_attempt, h_slept>>
    /\ UNCHANGED <<dvars, mvars, now>>

\* time.sleep(backoff * attempt); continue
HttpSleep ==
    /\ h_pc = "sleep"
    /\ h_slept' = h_slept + h_attempt
    /\ h_attempt' = h_attempt + 1
    /\ h_pc' = "for"
    /\ UNCHANGED <<h_retry, h_ret, h_log>>
    /\ UNCHANGED <<dvars, mvars, now>>

DiffParked ==
    /\ d_old = NoDir
    /\ d_new = NoDir
    /\ d_fail = NoFail
    /\ d_pc = "unused"
    /\ d_ret = Raised("none")

Init == MainInit /\ DiffParked /\ HttpParked /\ now = 0

Next ==
    \/ \E name \in FetchNames, tree \in ExportTrees : Fetch(name, tree)
    \/ \E l \in LeagueLists : MainStart(l)
    \/ Locate
    \/ WriteDiff
    \/ CopytreeOverwrite
    \/ \E p \in Paths : RmtreeUnlink(p)
    \/ RmtreeRmdir
    \/ CopytreeMkdir
    \/ \E p \in Paths : CopytreeCopy(p)
    \/ CopytreeCopystat
    \/ CopyDiff
    \/ Shortcuts
    \/ WriteHtmlMirror
    \/ WriteManifest
    \/ Raise

(***************************************************************************)
(* The diff harness: both diff implementations called on every pair of     *)
(* directories over the data names, with and without a failing read.       *)
(***************************************************************************)
DiffPaths == {DataNames[k] : k \in 1..NPaths}

Contents == {Data(n) : n \in 1..NContents}



DiffDirs == {NoDir} \cup {Dir(f, 1) : f \in TreesOver(DiffPaths, Contents)}

DiffInit ==
    /\ d_old \in DiffDirs
    /\ d_new \in DiffDirs
    /\ d_fail \in DiffFails(d_old, d_new)
    /\ d_pc = "call"
    /\ d_ret = Raised("none")
    /\ now = 1
    /\ MainInit
    /\ HttpParked

CallBuildDiff ==
    /\ d_pc = "call"
    /\ d_pc' = "build_diff"
    /\ d_ret' = build_diff(d_old, d_new, d_fail)
    /\ UNCHANGED <<d_old, d_new, d_fail, now>>
    /\ UNCHANGED <<mvars, hvars>>

CallWriteDiff ==
    /\ d_pc = "call"
    /\ d_pc' = "write_diff"
    /\ d_ret' = write_diff(d_old, d_new, d_fail)
    /\ UNCHANGED <<d_old, d_new, d_fail, now>>
    /\ UNCHANGED <<mvars, hvars>>

CallPostBuildDiff ==
    /\ d_pc = "call"
    /\ d_pc' = "post_build_diff"
    /\ d_ret' = post_build_diff(d_old, d_new, d_fail)
    /\ UNCHANGED <<d_old, d_new, d_fail, now>>
    /\ UNCHANGED <<mvars, hvars>>

CallPostWriteDiff ==
    /\ d_pc = "call"
    /\ d_pc' = "post_write_diff"
    /\ d_ret' = post_write_diff(d_old, d_new, d_fail)
    /\ UNCHANGED <<d_old, d_new, d_fail, now>>
    /\ UNCHANGED <<mvars, hvars>>

DiffNext == CallBuildDiff \/ CallWriteDiff \/ CallPostBuildDiff \/ CallPostWriteDiff

vars == <<d_old, d_new, d_fail, d_pc, d_ret, now,
          docs, docs_root, leagues, pc, idx, run_dir, exit_code, done, pub, old_stable,
          h_retry, h_attempt, h_pc, h_ret, h_log, h_slept>>

DiffSpec == DiffInit /\ [][DiffNext]_vars

\* http_get_json called with every retry up to MaxRetry.
HttpInit ==
    /\ h_retry \in 0..MaxRetry
    /\ h_attempt = 1
    /\ h_pc = "for"
    /\ h_ret = NoReturn
    /\ h_log = <<>>
    /\ h_slept = 0
    /\ MainInit
    /\ DiffParked
    /\ now = 0

HttpNext == HttpFor \/ (\E o \in Outcomes : HttpUrlopen(o)) \/ HttpSleep

HttpSpec == HttpInit /\ [][HttpNext]_vars

Spec == Init /\ [][Next]_vars

(***************************************************************************)
(* The manifest harness: build_manifest and write_manifest called on every *)
(* stable folder over the data names and state.json, with and without a    *)
(* failing read.                                                           *)
(***************************************************************************)
ManifestPaths == DiffPaths \cup {"state.json"}

StateContents == {Data(1), Data(2), Data(3), Data(4), Data(5)}

ManifestDirs ==
    {NoDir}
    \cup {Dir(f, 1) : f \in {t \in TreesOver(ManifestPaths, Contents \cup StateContents) :
                                \A p \in DOMAIN t : p # "state.json" => t[p] \in Contents}}

ManifestInit ==
    /\ d_old = NoDir
    /\ d_new \in ManifestDirs
    /\ d_fail \in ManifestFails(d_new)
    /\ d_pc = "call"
    /\ d_ret = Raised("none")
    /\ now = 1
    /\ MainInit
    /\ HttpParked

CallBuildManifest ==
    /\ d_pc = "call"
    /\ d_pc' = "build_manifest"
    /\ d_ret' = build_manifest(d_new, StableDir(<<"1">>), <<"1">>, d_fail)
    /\ UNCHANGED <<d_old, d_new, d_fail, now>>
    /\ UNCHANGED <<mvars, hvars>>

CallWriteManifest ==
    /\ d_pc = "call"
    /\ d_pc' = "write_manifest"
    /\ d_ret' = write_manifest(d_new, StableDir(<<"1">>), <<"1">>, d_fail)
    /\ UNCHANGED <<d_old, d_new, d_fail, now>>
    /\ UNCHANGED <<mvars, hvars>>

ManifestNext == CallBuildManifest \/ CallWriteManifest

ManifestSpec == ManifestInit /\ [][ManifestNext]_vars

(***************************************************************************)
(* The publisher started once on a docs tree as exporter runs of any       *)
(* seasons left it: run folders of any age, a league id that extends       *)
(* another one (1 and 1_a).                                                *)
(***************************************************************************)
MaxMtime == 2        \* the run folders were last written at times 1..MaxMtime

FsRunNames ==
    {<<"league_", "1", "_", "a">>, <<"league_", "1", "_", "b">>,
     <<"league_", "1", "_", "a", "_", "a">>}

FsTrees ==
    {[p \in {"state.json"} |-> Data(1)],
     [p \in {"draft_picks.json"} |-> Data(1)],
     [p \in {"draft_picks.json", "state.json"} |->
         IF p = "state.json" THEN Data(2) ELSE Data(1)]}

FsDirs == {NoDir} \cup {Dir(t, m) : t \in FsTrees, m \in 1..MaxMtime}

FsLeagueLists ==
    {<< <<"1">> >>, << <<"1", "_", "a">> >>,
     << <<"1">>, <<"1", "_", "a">> >>, << <<"1", "_", "a">>, <<"1">> >>}

FsInit ==
    /\ \E f \in [FsRunNames -> FsDirs] :
          docs = [n \in DirNames |-> IF n \in FsRunNames THEN f[n] ELSE NoDir]
    /\ docs_root = NoFiles
    /\ leagues \in FsLeagueLists
    /\ pc = "locate"
    /\ idx = 1
    /\ run_dir = NoName
    /\ exit_code = NoExit
    /\ done = {}
    /\ pub = [l \in IdUniverse |-> NoPub]
    /\ old_stable = NoDir
    /\ now = MaxMtime + 1
    /\ DiffParked
    /\ HttpParked

FsNext ==
    \/ Locate
    \/ WriteDiff
    \/ CopytreeOverwrite
    \/ \E p \in Paths : RmtreeUnlink(p)
    \/ RmtreeRmdir
    \/ CopytreeMkdir
    \/ \E p \in Paths : CopytreeCopy(p)
    \/ CopytreeCopystat
    \/ CopyDiff
    \/ Shortcuts
    \/ WriteHtmlMirror
    \/ WriteManifest
    \/ Raise

FsSpec == FsInit /\ [][FsNext]_vars

(***************************************************************************)
(* Claims about the diff.                                                  *)
(***************************************************************************)
OldPaths == IF d_old.exists THEN DOMAIN d_old.files ELSE {}

NewPaths == IF d_new.exists THEN DOMAIN d_new.files ELSE {}

Differing == {p \in OldPaths \cap NewPaths : d_old.files[p] # d_new.files[p]}

Identical == {p \in OldPaths \cap NewPaths : d_old.files[p] = d_new.files[p]}

\* Strictly ascending in Python's string order (hence without duplicates).
Ascending(s) == \A j, k \in 1..Len(s) : j < k => StrLess(s[j], s[k])

\* The files section {added, removed, changed, unchanged_count} a call of
\* the harness produced.
DiffFiles == IF d_pc = "post_build_diff" THEN d_ret.value ELSE d_ret.value.files

\* C1: build_diff (of both tools), every file being readable, classifies
\* every path: added = new minus old, removed = old minus new, changed =
\* the common paths whose contents differ, unchanged_count = the number of
\* common paths with identical contents; the three lists are ascending.
C1_BuildDiffClassifies ==
    (d_pc \in {"build_diff", "post_build_diff"} /\ d_fail = NoFail) =>
        /\ d_ret.raised = "none"
        /\ Range(DiffFiles.added) = NewPaths \ OldPaths
        /\ Range(DiffFiles.removed) = OldPaths \ NewPaths
        /\ Range(DiffFiles.changed) = Differing
        /\ DiffFiles.unchanged_count = Cardinality(Identical)
        /\ Ascending(DiffFiles.added)
        /\ Ascending(DiffFiles.removed)
        /\ Ascending(DiffFiles.changed)

\* The scenario of the design: old {a:1, b:2}, new {a:1, b:other, c:any}
\* gives added [c], removed [], changed [b], unchanged_count 1.
C1_Witness ==
    /\ d_pc = "build_diff"
    /\ d_fail = NoFail
    /\ d_old = Dir([p \in {"a.json", "b.json"} |->
                        IF p = "a.json" THEN Data(1) ELSE Data(2)], 1)
    /\ d_new = Dir([p \in {"a.json", "b.json", "c.json"} |->
                        IF p = "c.json" THEN Data(2) ELSE Data(1)], 1)
    /\ d_ret.raised = "none"
    /\ d_ret.value.files = FilesRec(<<"c.json">>, <<>>, <<"b.json">>, 1)

\* C2: in every diff write_diff or build_diff produces, added, removed and
\* changed are pairwise disjoint and the four classes count every path of
\* the union of the two trees exactly once.
C2_DiffPartitions ==
    (d_pc \in {"build_diff", "write_diff"} /\ d_ret.raised = "none") =>
        LET f == DiffFiles IN
        /\ Range(f.added) \cap Range(f.removed) = {}
        /\ Range(f.added) \cap Range(f.changed) = {}
        /\ Range(f.removed) \cap Range(f.changed) = {}
        /\ Len(f.added) + Len(f.removed) + Len(f.changed) + f.unchanged_count
               = Cardinality(OldPaths \cup NewPaths)

\* A written diff with a path in each of the three lists.
C2_Witness ==
    /\ d_pc = "write_diff"
    /\ d_ret.raised = "none"
    /\ d_ret.value.files.added # <<>>
    /\ d_ret.value.files.removed # <<>>
    /\ d_ret.value.files.changed # <<>>
    /\ Cardinality(OldPaths \cup NewPaths) = NPaths

\* C3: diffing an existing tree against itself yields empty added, removed
\* and changed, and unchanged_count = the number of files in the tree.
C3_DiffSelf ==
    (d_pc = "build_diff" /\ d_old.exists /\ d_new = d_old /\ d_fail = NoFail) =>
        /\ d_ret.raised = "none"
        /\ d_ret.value.files =
               FilesRec(<<>>, <<>>, <<>>, Cardinality(DOMAIN d_old.files))

C3_Witness ==
    /\ d_pc = "build_diff"
    /\ d_old.exists
    /\ d_new = d_old
    /\ d_fail = NoFail
    /\ Cardinality(DOMAIN d_old.files) = NPaths
    /\ d_ret.raised = "none"
    /\ d_ret.value.files.unchanged_count = NPaths

\* C4: when the old root does not exist, write_diff writes added = the
\* sorted list of all files of the new tree, removed = [], changed = [],
\* unchanged_count = 0.
C4_DiffFirstPublish ==
    (d_pc = "write_diff" /\ ~d_old.exists) =>
        /\ d_ret.raised = "none"
        /\ Range(d_ret.value.files.added) = NewPaths
        /\ Ascending(d_ret.value.files.added)
        /\ d_ret.value.files.removed = <<>>
        /\ d_ret.value.files.changed = <<>>
        /\ d_ret.value.files.unchanged_count = 0

C4_Witness ==
    /\ d_pc = "write_diff"
    /\ ~d_old.exists
    /\ d_ret.raised = "none"
    /\ Len(d_ret.value.files.added) = NPaths

(***************************************************************************)
(* Claims about the publisher.                                             *)
(***************************************************************************)
\* The process has run and ended.
Ended == pc \in {"returned", "raised"}

\* The league being published was last published, completely, from the
\* same run folder, and neither the exporter nor a failure came between.
SecondInARow == pub[Lid].valid /\ pub[Lid].run = run_dir

\* C5: publishing the same run snapshot twice in a row, the diff.json the
\* second publish writes has empty added, removed and changed.
C5_SecondDiffEmpty ==
    (pc = "promote" /\ SecondInARow) =>
        LET f == docs[run_dir].files["diff.json"].files
        IN  f.added = <<>> /\ f.removed = <<>> /\ f.changed = <<>>

\* Same paths, and the same bytes and sha256 for each path outside `except'.
SameInventory(m1, m2, except) ==
    /\ {m1[k].path : k \in 1..Len(m1)} = {m2[k].path : k \in 1..Len(m2)}
    /\ \A j \in 1..Len(m1), k \in 1..Len(m2) :
          (m1[j].path = m2[k].path /\ m1[j].path \notin except) =>
              (m1[j].bytes = m2[k].bytes /\ m1[j].sha256 = m2[k].sha256)

\* C6, as claimed: publishing the same run snapshot twice in a row, the
\* second manifest lists the same paths as the first, each with the same
\* bytes and sha256.
C6_SameInventory ==
    \A l \in IdUniverse :
        (pub[l].valid /\ pub[l].twice) => SameInventory(pub[l].prev, pub[l].inventory, {})

\* C6, amended: publishing the same run snapshot twice in a row, the second
\* manifest lists the same paths as the first, each path other than
\* diff.json with the same bytes and sha256.
C6_SameInventoryButDiff ==
    \A l \in IdUniverse :
        (pub[l].valid /\ pub[l].twice) =>
            SameInventory(pub[l].prev, pub[l].inventory, {"diff.json"})

\* A second publish in a row whose manifest lists a data file and diff.json.
C6_Witness ==
    \E l \in IdUniverse :
        /\ pub[l].valid
        /\ pub[l].twice
        /\ {pub[l].inventory[k].path : k \in 1..Len(pub[l].inventory)}
              = {"diff.json", "state.json"}
        /\ pub[l].prev # pub[l].inventory

\* C7: when a league of the list has no run folder, the publisher goes on:
\* every later league of the list that has a run folder is published to
\* its end (promoted, manifest written).
C7_MissingRunContinues ==
    (pc = "returned" /\ exit_code = 2 /\ leagues # <<>>) =>
        \A k \in (idx + 1)..Len(leagues) :
            newest_run_dir(leagues[k]) # {} => k \in done

\* C8: the exit status is zero exactly when the list is not empty and every
\* league of it was published to its end; otherwise it is not zero.
C8_ExitStatus ==
    Ended =>
        /\ exit_code \in {0, 1, 2}
        /\ exit_code = 0 <=> (leagues # <<>> /\ done = 1..Len(leagues))

\* Both sides: a process that published two leagues and returned 0.
C8_Witness ==
    /\ pc = "returned"
    /\ exit_code = 0
    /\ Len(leagues) = 2
    /\ done = {1, 2}

\* C9: a failure raised in one league's steps (diff, promote, convenience
\* copies, manifest) does not keep any later league of the list from being
\* processed.
C9_FailureContained ==
    pc = "raised" => \A k \in 1..Len(leagues) : k <= idx

\* C10: at every point of a promotion the stable folder holds the complete
\* old tree or the complete new tree.
C10_PromoteAtomic ==
    pc \in {"rmtree", "mkdir", "copy"} =>
        \/ docs[Stable] = old_stable
        \/ docs[Stable].exists /\ docs[Stable].files = docs[run_dir].files

\* C11: immediately after a successful promote the stable folder holds
\* exactly the files of the run folder, with identical contents: no file of
\* the previous stable tree that the run folder lacks survives.
C11_PromoteReplaces ==
    pc = "copydiff" =>
        /\ docs[Stable].exists
        /\ docs[Stable].files = docs[run_dir].files

\* A promote over a stable folder that held a file the run folder lacks.
C11_Witness ==
    /\ pc = "copydiff"
    /\ old_stable.exists
    /\ DOMAIN old_stable.files \ DOMAIN docs[run_dir].files # {}
    /\ \E p \in DOMAIN old_stable.files \cap DOMAIN docs[run_dir].files :
          old_stable.files[p] # docs[run_dir].files[p]

\* The step that ends a league's publish: write_manifest has returned.
PublishEnds == pc = "manifest" /\ pc' \in {"locate", "returned"}

\* The manifest m lists exactly the files of dir, each with its size and
\* its sha256.
ManifestLists(m, dir) ==
    /\ {m.files[k].path : k \in 1..Len(m.files)} = DOMAIN dir.files
    /\ \A k \in 1..Len(m.files) :
          /\ m.files[k].bytes = st_size(dir.files[m.files[k].path])
          /\ m.files[k].sha256 = sha256_file(dir.files[m.files[k].path])

\* C12, as claimed: after a first publish of a league (no stable folder
\* before) the stable folder equals the run folder exactly, same paths and
\* same contents, and the manifest lists every file of the run folder with
\* its size and hash.
C12_FirstPublishEqualsRun ==
    [][(PublishEnds /\ ~old_stable.exists) =>
          /\ docs'[Stable].exists
          /\ docs'[Stable].files = docs'[run_dir].files
          /\ ManifestLists(docs'[Stable].files["manifest.json"], docs'[run_dir])]_vars

\* C12, amended: after a first publish of a league the stable folder holds
\* the files of the run folder, with the same contents, and manifest.json
\* besides; the manifest lists every file of the run folder with its size
\* and hash.
C12_FirstPublishRunPlusManifest ==
    [][(PublishEnds /\ ~old_stable.exists) =>
          /\ docs'[Stable].exists
          /\ DOMAIN docs'[Stable].files = DOMAIN docs'[run_dir].files \cup {"manifest.json"}
          /\ "manifest.json" \notin DOMAIN docs'[run_dir].files
          /\ \A p \in DOMAIN docs'[run_dir].files :
                docs'[Stable].files[p] = docs'[run_dir].files[p]
          /\ ManifestLists(docs'[Stable].files["manifest.json"], docs'[run_dir])]_vars

\* The first publish there ever was has ended: one exporter run, then one
\* publisher run of one league.
C12_Witness ==
    /\ pc = "returned"
    /\ exit_code = 0
    /\ Len(leagues) = 1
    /\ now = 2
    /\ DOMAIN docs[StableDir(leagues[1])].files = {"diff.json", "manifest.json", "state.json"}
    /\ docs[StableDir(leagues[1])].files["manifest.json"].count = 2

\* C13: when hashing either copy of a path present in both trees fails
\* during a diff, the path is reported in changed and the diff completes
\* with a result; no error leaves the diff.
C13_HashFailureIsChanged ==
    (d_pc \in {"build_diff", "write_diff", "post_build_diff", "post_write_diff"}
        /\ d_fail # NoFail
        /\ d_fail.path \in OldPaths \cap NewPaths) =>
        /\ d_ret.raised = "none"
        /\ d_fail.path \in Range(DiffFiles.changed)

\* main is inside its loop.
Running == pc \notin {"idle", "returned", "raised"}

\* In the tree d, this publish has written the diff.json of the run folder.
DiffWrittenIn(d) ==
    /\ run_dir # NoName
    /\ "diff.json" \in DOMAIN d[run_dir].files
    /\ d[run_dir].files["diff.json"].generated_at = now

DiffWritten == DiffWrittenIn(docs)

\* In the tree d, the stable folder of the league being published holds
\* every file of the run folder, as it is there.
PromotedIn(d) ==
    /\ run_dir # NoName
    /\ d[Stable].exists
    /\ \A p \in DOMAIN d[run_dir].files :
          /\ p \in DOMAIN d[Stable].files
          /\ d[Stable].files[p] = d[run_dir].files[p]

Promoted == PromotedIn(docs)

\* The step writes manifest.json into the stable folder.
ManifestWritten ==
    /\ "manifest.json" \in DOMAIN docs'[Stable].files
    /\ \/ "manifest.json" \notin DOMAIN docs[Stable].files
       \/ docs'[Stable].files["manifest.json"] # docs[Stable].files["manifest.json"]

\* The steps of one league's publish, in their order; a failure or the
\* return at a missing run folder ends them.
StepOrder ==
    {<<"locate", "diff">>, <<"diff", "promote">>,
     <<"promote", "rmtree">>, <<"promote", "mkdir">>, <<"rmtree", "mkdir">>,
     <<"mkdir", "copy">>, <<"copy", "copydiff">>, <<"copydiff", "shortcuts">>,
     <<"shortcuts", "html">>, <<"html", "manifest">>,
     <<"manifest", "locate">>, <<"manifest", "returned">>,
     <<"locate", "returned">>}
    \cup {<<s, "raised">> : s \in RaisingSteps}

\* C14: a league's publish takes its steps only in the order run located,
\* diff written, promoted, manifest written: the stable folder is not
\* changed before this publish has written its diff, the manifest is not
\* written before the promotion, and once promoted the stable folder keeps
\* the new files, also when a later step (the manifest) fails.
C14_StepsInOrder ==
    [][Running =>
          /\ (pc' # pc => <<pc, pc'>> \in StepOrder)
          /\ (pc = "locate" => docs' = docs)
          /\ (pc = "diff" => docs'[Stable] = docs[Stable])
          /\ (docs'[Stable] # docs[Stable] => DiffWritten)
          /\ (ManifestWritten => (DiffWritten /\ Promoted))
          /\ ((DiffWritten /\ Promoted) => (DiffWrittenIn(docs') /\ PromotedIn(docs')))]_vars

\* The manifest step (or one between the promote and it) has failed over a
\* stable folder that had been published before: the new files stay.
C14_Witness ==
    /\ pc = "raised"
    /\ DiffWritten
    /\ docs[Stable].exists
    /\ docs[Stable].files = docs[run_dir].files
    /\ docs[run_dir].files["diff.json"].files.removed = <<"manifest.json">>
    /\ RootName("league_state_", Lid, ".html") \in DOMAIN docs_root
    /\ docs_root[RootName("league_state_", Lid, ".html")].raw = docs[Stable].files["state.json"]

\* The steps from the promote on: the diff has been written.
PromoteOn ==
    {"promote", "rmtree", "mkdir", "copy", "copydiff", "shortcuts", "html", "manifest"}

\* The stable folder as it was before this publish's promotion.
StableBefore == IF pc = "promote" THEN docs[Stable] ELSE old_stable

\* The diff file d describes the difference between the trees old_dir and
\* new_dir, for the paths outside `except': its lists hold the paths only
\* in new_dir, only in old_dir, and in both with other contents; its count
\* is the number of paths in both with the same contents (a path of
\* `except' may be counted besides).
Describes(d, old_dir, new_dir, except) ==
    LET O    == (IF old_dir.exists THEN DOMAIN old_dir.files ELSE {}) \ except
        N    == DOMAIN new_dir.files \ except
        same == {p \in O \cap N : old_dir.files[p] = new_dir.files[p]}
    IN  /\ Range(d.files.added) \ except = N \ O
        /\ Range(d.files.removed) \ except = O \ N
        /\ Range(d.files.changed) \ except = (O \cap N) \ same
        /\ d.files.unchanged_count - Cardinality(same) \in 0..Cardinality(except)

\* After the step, the stable folder holds the diff.json of the run folder.
StableDiffIsRunDiff ==
    docs'[Stable].files["diff.json"] = docs[run_dir].files["diff.json"]

\* A step from the promote on: the run folder holds this publish's
\* diff.json, which describes (outside `except') the difference between
\* the stable folder as it was and the run folder; the step leaves the run
\* folder alone; the step that ends the publish leaves the same diff.json
\* in the stable folder.
DiffDescribesStep(except) ==
    pc \in PromoteOn =>
        /\ DiffWritten
        /\ Describes(docs[run_dir].files["diff.json"], StableBefore, docs[run_dir], except)
        /\ docs'[run_dir] = docs[run_dir]
        /\ (PublishEnds => StableDiffIsRunDiff)

\* C15, as claimed: the diff.json in the run folder (and in the stable
\* folder once the publish has ended) describes the difference between the
\* stable folder as it was before this publish's promotion and the run
\* folder; it is in the run folder before the stable folder is touched and
\* stays there, also when the promotion fails.
C15_DiffDescribesAll == [][DiffDescribesStep({})]_vars

\* C15, amended: the same, the diff describing the difference for every
\* path other than diff.json itself.
C15_DiffDescribesButItself == [][DiffDescribesStep({"diff.json"})]_vars

\* A promotion that failed after the old stable folder was removed: the
\* run folder holds this publish's diff.json, which lists what the old
\* stable folder held besides.
C15_Witness ==
    /\ pc = "raised"
    /\ DiffWritten
    /\ ~docs[Stable].exists
    /\ docs[run_dir].files["diff.json"].files.removed = <<"manifest.json">>
    /\ docs[run_dir].files["diff.json"].files.changed = <<"state.json">>

(***************************************************************************)
(* Claims about the manifest.                                              *)
(***************************************************************************)
\* The manifest a call of the harness produced.
ManifestOf ==
    IF d_pc = "build_manifest" THEN d_ret.value ELSE d_ret.value.files["manifest.json"]

ManifestCalled == d_pc \in {"build_manifest", "write_manifest"}

\* C16: in every manifest build_manifest produces, count is the length of
\* files, no path occurs twice in files, and files is ascending by path.
C16_ManifestWellFormed ==
    (ManifestCalled /\ d_ret.raised = "none") =>
        LET m == ManifestOf IN
        /\ m.count = Len(m.files)
        /\ \A j, k \in 1..Len(m.files) : j # k => m.files[j].path # m.files[k].path
        /\ Ascending([k \in 1..Len(m.files) |-> m.files[k].path])
        /\ {m.files[k].path : k \in 1..Len(m.files)} = DOMAIN d_new.files

\* A manifest of a stable folder holding every path.
C16_Witness ==
    /\ d_pc = "build_manifest"
    /\ d_ret.raised = "none"
    /\ d_ret.value.count = NPaths + 1
    /\ DOMAIN d_new.files = ManifestPaths

\* state.json is there, can be read, parses to an object, and the object
\* carries a generated_at that is not empty.
CarriesGeneratedAt ==
    /\ "state.json" \in DOMAIN d_new.files
    /\ ~(d_fail # NoFail /\ d_fail.op = "read_text")
    /\ LET s == json_loads(d_new.files["state.json"])
       IN  /\ s.raised = "none"
           /\ s.value.type = "object"
           /\ "generated_at" \in DOMAIN s.value.fields
           /\ s.value.fields.generated_at # 0

\* C17: the manifest's generated_at is the generated_at of the stable
\* folder's state.json when that file is there, parses and carries the
\* field; in every other case (no file, unreadable, no JSON, not an
\* object, field missing or empty) it is the wall-clock time; finding
\* generated_at never raises (build_manifest raises in its hashing only).
C17_GeneratedAt ==
    ManifestCalled =>
        /\ (d_fail = NoFail \/ d_fail.op = "read_text") => d_ret.raised = "none"
        /\ d_ret.raised = "none" =>
              ManifestOf.generated_at =
                  IF CarriesGeneratedAt
                  THEN json_loads(d_new.files["state.json"]).value.fields.generated_at
                  ELSE utcnow
        /\ d_ret.raised # "none" => d_fail.op = "sha256_file"

\* A manifest of a stable folder whose state.json carries an empty
\* generated_at: the wall-clock time.
C17_Witness ==
    /\ d_pc = "build_manifest"
    /\ "state.json" \in DOMAIN d_new.files
    /\ d_fail = NoFail
    /\ json_loads(d_new.files["state.json"]).raised = "none"
    /\ json_loads(d_new.files["state.json"]).value.type = "object"
    /\ "generated_at" \in DOMAIN json_loads(d_new.files["state.json"]).value.fields
    /\ json_loads(d_new.files["state.json"]).value.fields.generated_at = 0
    /\ d_ret.raised = "none"
    /\ d_ret.value.generated_at = utcnow

(***************************************************************************)
(* Claims about the publisher on any docs tree.                            *)
(***************************************************************************)
\* The candidates of newest_run_dir: the existing folders whose name is
\* league_<lid>_ and a suffix.
Candidates(lid) == {n \in DirNames : GlobMatches(lid, n) /\ docs[n].exists}

\* C18: the run folder chosen for a league is a candidate folder
\* league_<lid>_<suffix> of the greatest mtime among all candidates: no
\* candidate of a strictly later mtime is passed over.
C18_NewestRunChosen ==
    pc = "diff" =>
        /\ run_dir \in Candidates(Lid)
        /\ \A n \in Candidates(Lid) : docs[n].mtime <= docs[run_dir].mtime

\* Three candidates, the chosen one later than another one and as late as
\* a third.
C18_Witness ==
    /\ pc = "diff"
    /\ Cardinality(Candidates(Lid)) = 3
    /\ \E n \in Candidates(Lid) : docs[n].mtime < docs[run_dir].mtime
    /\ \E n \in Candidates(Lid) \ {run_dir} : docs[n].mtime = docs[run_dir].mtime

\* The run folders of league y: the folders league_<y>_<suffix>.
RunFoldersOf(y) == {n \in DirNames : GlobMatches(y, n)}

\* The convenience copies of league y at the docs root.
RootCopiesOf(y) ==
    {RootName("league_state_", y, ".json"), RootName("draft_picks_", y, ".json"),
     RootName("league_state_", y, ".html")}

\* C19: publishing league X leaves every file of the stable folder, of the
\* run folders (those that are not by their name run folders of X as well)
\* and of the root copies of any other league Y of the list as it is.
C19_OtherLeaguesUntouched ==
    [][Running =>
          \A y \in Range(leagues) \ {Lid} :
              /\ docs'[StableDir(y)].files = docs[StableDir(y)].files
              /\ \A n \in RunFoldersOf(y) \ RunFoldersOf(Lid) :
                    docs'[n].files = docs[n].files
              /\ \A c \in RootCopiesOf(y) :
                    /\ (c \in DOMAIN docs_root') = (c \in DOMAIN docs_root)
                    /\ c \in DOMAIN docs_root => docs_root'[c] = docs_root[c]]_vars

\* The step that ends a league's publish leaves each root copy whose
\* source file is in the stable folder identical to that file.
RootCopiesFresh ==
    /\ "state.json" \in DOMAIN docs'[Stable].files =>
          /\ RootName("league_state_", Lid, ".json") \in DOMAIN docs_root'
          /\ docs_root'[RootName("league_state_", Lid, ".json")]
                = docs'[Stable].files["state.json"]
    /\ "draft_picks.json" \in DOMAIN docs'[Stable].files =>
          /\ RootName("draft_picks_", Lid, ".json") \in DOMAIN docs_root'
          /\ docs_root'[RootName("draft_picks_", Lid, ".json")]
                = docs'[Stable].files["draft_picks.json"]

\* C20: when a league's publish has succeeded, each root copy
\* (league_state_<id>.json, draft_picks_<id>.json) whose source file is in
\* the new stable folder has the contents of that file; a source file
\* missing from the new stable folder does not keep the publish from
\* succeeding.
C20_RootCopies ==
    [][PublishEnds => RootCopiesFresh]_vars

\* A publish that succeeded on a stable folder with draft_picks.json and
\* without state.json: one copy made, the other not.
C20_Witness ==
    /\ pc = "returned"
    /\ exit_code = 0
    /\ leagues = << <<"1">> >>
    /\ "state.json" \notin DOMAIN docs[StableDir(<<"1">>)].files
    /\ "draft_picks.json" \in DOMAIN docs[StableDir(<<"1">>)].files
    /\ RootName("draft_picks_", <<"1">>, ".json") \in DOMAIN docs_root
    /\ RootName("league_state_", <<"1">>, ".json") \notin DOMAIN docs_root

\* The files of a folder other than diff.json.
InputFiles(dir) == [p \in DOMAIN dir.files \ {"diff.json"} |-> dir.files[p]]

\* C21: a publish does not change, remove or add any file of its run
\* folder (nor of any other run folder of the league) other than writing
\* diff.json into the run folder.
C21_RunSnapshotImmutable ==
    [][Running =>
          \A n \in RunFoldersOf(Lid) :
              /\ docs'[n].exists = docs[n].exists
              /\ InputFiles(docs'[n]) = InputFiles(docs[n])
              /\ (n # run_dir => docs'[n] = docs[n])]_vars

\* A publish that has ended: its run folder holds the two files it held
\* before, and the diff.json of this publish.
C21_Witness ==
    /\ pc = "returned"
    /\ exit_code = 0
    /\ DiffWritten
    /\ DOMAIN docs[run_dir].files = {"diff.json", "draft_picks.json", "state.json"}
    /\ docs[run_dir].files["state.json"] = Data(2)

\* C22: when the old root does not exist, write_diff produces its result
\* without hashing any file: a file of the new tree that cannot be read
\* does not keep it from returning, and no path is reported as changed.
C22_NoHashingWithoutOld ==
    (d_pc = "write_diff" /\ ~d_old.exists) =>
        /\ d_ret.raised = "none"
        /\ d_ret.value.files = FilesRec(sorted(NewPaths), <<>>, <<>>, 0)

\* A first diff of a full tree one file of which cannot be read.
C22_Witness ==
    /\ d_pc = "write_diff"
    /\ ~d_old.exists
    /\ d_fail # NoFail
    /\ d_fail.path \in NewPaths
    /\ d_ret.raised = "none"
    /\ Len(d_ret.value.files.added) = NPaths

\* C23: the two diff implementations agree: for every pair of trees, a
\* missing old root included, and no hashing failure, the files section
\* publish_and_manifest.write_diff writes is the one postprocess.write_diff
\* writes.
C23_DiffsAgree ==
    (d_pc = "write_diff" /\ d_fail = NoFail) =>
        /\ d_ret.raised = "none"
        /\ post_write_diff(d_old, d_new, d_fail).raised = "none"
        /\ d_ret.value.files = post_write_diff(d_old, d_new, d_fail).value.files

\* Both called on two existing trees with a path in each class.
C23_Witness ==
    /\ d_pc = "write_diff"
    /\ d_fail = NoFail
    /\ d_old.exists
    /\ d_ret.value.files.added # <<>>
    /\ d_ret.value.files.removed # <<>>
    /\ d_ret.value.files.changed # <<>>
    /\ post_write_diff(d_old, d_new, d_fail).value.files.changed = d_ret.value.files.changed

(***************************************************************************)
(* Claims about http_get_json.                                             *)
(***************************************************************************)
Retried(o) ==
    \/ o.kind = "HTTPError" /\ o.code \in RetryCodes
    \/ o.kind = "URLError"

LastOutcome == h_log[Len(h_log)]

\* C24: for every retry >= 0, http_get_json makes at most retry requests;
\* a request is followed by another only after a status 429/500/502/503/504
\* or a URL error, attempts remaining; any other HTTP status is raised at
\* once; the call ends by returning the decoded response of a successful
\* request or by raising the last error, and never returns a value without
\* a successful request.
C24_HttpGetJson ==
    /\ Len(h_log) <= h_retry
    /\ \A k \in 1..(Len(h_log) - 1) : Retried(h_log[k]) /\ k < h_retry
    /\ (h_log # <<>> /\ h_pc = "sleep") => Retried(LastOutcome)
    /\ (h_log # <<>> /\ LastOutcome.kind = "HTTPError"
            /\ LastOutcome.code \notin RetryCodes) =>
          h_ret = HttpRaise(LastOutcome)
    /\ h_pc = "returned" =>
          /\ h_log # <<>>
          /\ LastOutcome.kind = "response"
          /\ h_ret = HttpReturn(json_loads(LastOutcome.body).value)
    /\ h_pc = "raised" =>
          /\ h_log # <<>>
          /\ h_ret.kind = "raise"
          /\ h_ret.error = IF LastOutcome.kind = "response"
                           THEN JSONDecodeError ELSE LastOutcome

(***************************************************************************)
(* Claims about the run snapshot and the stable folders of the listed ids. *)
(***************************************************************************)
\* C25: for any list of ids, the directory selected as the run snapshot of
\* an id is never the stable output directory of an id of the list: the
\* pattern league_<id>_* never matches league_<other id>, so a publish
\* never promotes the stable tree of one id into the stable folder of
\* another.
C25_RunDirNeverStable ==
    (pc \in {"diff", "promote", "rmtree", "mkdir", "copy",
             "copydiff", "shortcuts", "html", "manifest"}) =>
        \A k \in 1..Len(leagues) : run_dir # StableDir(leagues[k])

====
